---------------------------- MODULE Spec2Model ----------------------------
(***************************************************************************)
(* A model of tbcml's base_script.js: the logging shims, the exported      *)
(* init entry point, the native string helpers, the class-loader search    *)
(* and the blocking download helper.  The host runtime (Java, Module,      *)
(* Process, NativePointer, console) is the environment: every answer it    *)
(* gives is drawn from a small set at the step that asks for it.           *)
(***************************************************************************)
EXTENDS Integers, Sequences, FiniteSets, TLC

VARIABLES
    pc,          \* position of the script's single thread
    frame,       \* the call the host or a mod script made: "none" or the function's name
    initLine,    \* the statement of init being executed (its source line), 0 outside init
    stage,       \* init's first argument
    parameters,  \* init's second argument
    message,     \* log's first argument
    level,       \* log's second argument, Omitted when not passed
    helper,      \* the helper log dispatched to, "none" before the dispatch
    emitted,     \* what the current call has emitted so far, in order
    nLogCalls,   \* log calls started by the current call
    nLogReturns, \* log calls that have returned in the current call
    hostCalls,   \* host queries the current call has attempted, in order
    seen,        \* the host's answers to the current call
    result,      \* what the current call returned
    callsDone,   \* calls completed since load
    rpcExports,  \* the names of the export object
    globals,     \* the script-level bindings
    mem,         \* process memory: the byte at each mapped address
    memAtCall,   \* process memory as it was when the current call started
    pointerSize, \* Process.pointerSize
    address,     \* the address argument of the string helpers
    content,     \* writeStdString's content: a sequence of code points
    textAt,      \* the address the current call read or wrote text at, 0 for none
    text,        \* what readStdString returned: a sequence of code points
    loaders,     \* the class loaders Java.enumerateClassLoadersSync() answered
    queried,     \* the loaders findClass was called on, in order
    classFactory,\* getJavaClass's classFactory: a loader's index, 0 for undefined
    response,    \* the lines the connection's reader has still to deliver
    body,        \* the lines of the response, as the connection delivers them
    builder,     \* the StringBuilder's text
    returned     \* the string download_file returned

logVars == <<pc, frame, initLine, stage, parameters, message, level, helper,
             emitted, nLogCalls, nLogReturns, hostCalls, seen, result,
             callsDone, rpcExports, globals>>

strVars == <<mem, memAtCall, pointerSize, address, content, textAt, text>>
clVars == <<loaders, queried, classFactory>>
dlVars == <<response, body, builder, returned>>
vars == <<logVars, strVars, clVars, dlVars>>

----------------------------------------------------------------------------
(* Bounds *)

MaxCalls == 2
MaxLen == 2     \* code points of a content
BufCap == 2     \* bytes of a heap buffer
MaxLoaders == 3 \* class loaders the host enumerates
MaxLines == 2   \* lines of a response

----------------------------------------------------------------------------
(* Values *)

Omitted == "<omitted>"
Undefined == "undefined"

\* The top-level function declarations of the script: its only script-level bindings.
ScriptFunctions ==
    {"logError", "logWarning", "logInfo", "logVerbose", "logDebug", "log",
     "getBaseAddress", "readStdString", "readJString", "writeStdString",
     "writeJString", "readByteBuffer", "getJavaClass", "getArcitecture",
     "is_64_bit", "getPackageName", "getPackageVersion", "download_file"}


----------------------------------------------------------------------------
(* The host's answers and the caller's inputs *)

Stages == {"early", "late"}

\* A parameter mapping: its entries in insertion order, each a key and a value.
Num(n) == [t |-> "number", n |-> n, s |-> ""]
Str(x) == [t |-> "string", n |-> 0, s |-> x]
Undef == [t |-> "undefined", n |-> 0, s |-> ""]
ParameterMappings ==
    { <<>>,
      << <<"apk", Str("jp")>> >>,
      << <<"skip", Undef>>, <<"n", Num(7)>> >> }

\* Module.findBaseAddress("libnative-lib.so"): null, or a page-aligned base.
NullPtr == [isNull |-> TRUE, addr |-> 0]
Ptr(a) == [isNull |-> FALSE, addr |-> a]
ModuleLookups == {NullPtr, Ptr(8192), Ptr(487424)}

\* Process.arch, for each pointer size.
Architectures(ps) == IF ps = 8 THEN {"arm64", "x64"} ELSE {"arm", "ia32"}
PackageNames == {"jp.co.ponos.battlecats", "jp.co.ponos.battlecatsen"}
VersionCodes == {130100}

Messages == {"hello", ""}
Levels == {"error", "warning", "info", "verbose", "debug",
           Omitted, Undefined, "ERROR", "trace"}

----------------------------------------------------------------------------
(* Text conversions of the template literals *)

HexDigits == <<"0", "1", "2", "3", "4", "5", "6", "7",
               "8", "9", "a", "b", "c", "d", "e", "f">>

RECURSIVE HexText(_)
HexText(n) ==
    IF n < 16 THEN HexDigits[n + 1]
    ELSE HexText(n \div 16) \o HexDigits[(n % 16) + 1]

\* NativePointer's text in a template literal; null prints as "null".
PointerText(p) == IF p.isNull THEN "null" ELSE "0x" \o HexText(p.addr)

JSONValue(val) ==
    IF val.t = "number" THEN ToString(val.n)
    ELSE "\"" \o val.s \o "\""

RECURSIVE JSONEntries(_, _)
JSONEntries(entries, first) ==
    IF entries = <<>> THEN ""
    ELSE LET e == Head(entries) IN
         IF e[2].t = "undefined" THEN JSONEntries(Tail(entries), first)
         ELSE (IF first THEN "" ELSE ",")
              \o "\"" \o e[1] \o "\":" \o JSONValue(e[2])
              \o JSONEntries(Tail(entries), FALSE)

\* JSON.stringify of a parameter mapping: entries in order, undefined ones left out.
JSONStringify(mapping) == "{" \o JSONEntries(mapping, TRUE) \o "}"

----------------------------------------------------------------------------
(* The logging helpers *)

Tag == "tbcml"

\* Each helper's callback: the platform priority and the console method it uses.
logError   == [priority |-> "e", console |-> "error"]
logWarning == [priority |-> "w", console |-> "warn"]
logInfo    == [priority |-> "i", console |-> "info"]
logVerbose == [priority |-> "v", console |-> "log"]
logDebug   == [priority |-> "d", console |-> "log"]

Helpers == [logError |-> logError, logWarning |-> logWarning, logInfo |-> logInfo,
            logVerbose |-> logVerbose, logDebug |-> logDebug]

\* log's default parameter: an omitted or undefined level becomes "info".
LevelOrDefault(lvl) == IF lvl \in {Omitted, Undefined} THEN "info" ELSE lvl

\* log's switch with the "warning" case falling into the "error" case.
LogDispatchFallThrough(lvl) ==
    CASE LevelOrDefault(lvl) = "error"   -> "logError"
      [] LevelOrDefault(lvl) = "warning" -> "logError"
      [] LevelOrDefault(lvl) = "info"    -> "logInfo"
      [] LevelOrDefault(lvl) = "verbose" -> "logVerbose"
      [] LevelOrDefault(lvl) = "debug"   -> "logDebug"
      [] OTHER                           -> "logInfo"

\* log's switch: the helper a level value selects.
LogDispatch(lvl) ==
    CASE LevelOrDefault(lvl) = "error"   -> "logError"
      [] LevelOrDefault(lvl) = "warning" -> "logWarning"
      [] LevelOrDefault(lvl) = "info"    -> "logInfo"
      [] LevelOrDefault(lvl) = "verbose" -> "logVerbose"
      [] LevelOrDefault(lvl) = "debug"   -> "logDebug"
      [] OTHER                           -> "logInfo"

\* The callback with its two statements in the other order.
PerformBodySwapped(h, msg) ==
    << [sink |-> "console", how |-> Helpers[h].console, tag |-> "", text |-> msg],
       [sink |-> "logcat", how |-> Helpers[h].priority, tag |-> Tag, text |-> msg] >>

\* The callback a helper hands to Java.perform: what it emits, in order.
PerformBody(h, msg) ==
    << [sink |-> "logcat", how |-> Helpers[h].priority, tag |-> Tag, text |-> msg],
       [sink |-> "console", how |-> Helpers[h].console, tag |-> "", text |-> msg] >>

\* An emitted record, marked with the log call it belongs to and with the
\* number of log calls that had returned when it was emitted.
Mark(rec) == [rec |-> rec, call |-> nLogCalls, returned |-> nLogReturns]


----------------------------------------------------------------------------
(* The query helpers init uses *)

\* getBaseAddress without the check for a missing module.
getBaseAddressNoNullCheck(lookup) == Ptr(lookup.addr + 4096)

\* getBaseAddress: null for a missing module, else the base plus 4096.
getBaseAddress(lookup) ==
    IF lookup.isNull THEN NullPtr ELSE Ptr(lookup.addr + 4096)

\* The host calls getPackageName makes, in order.
getPackageName ==
    << "getPackageName:Java.use", "getPackageName:currentApplication",
       "getPackageName:getPackageName" >>

\* The host calls getPackageVersion makes, in order.
getPackageVersion ==
    << "getPackageVersion:Java.use", "getPackageVersion:currentApplication",
       "getPackageVersion:getApplicationContext",
       "getPackageVersion:getPackageManager",
       "getPackageVersion:getPackageName", "getPackageVersion:getPackageInfo",
       "getPackageVersion:versionCode.value" >>

\* The calls of a chain that are attempted when its failAt-th call throws
\* (failAt = 0: none throws).
Attempted(chain, failAt) ==
    IF failAt = 0 THEN chain ELSE SubSeq(chain, 1, failAt)

\* The template literals of init, by source line.
InitMessage(line, st, params, answers) ==
    CASE line = 164 -> "Script loaded successfully\nStage: " \o st
                       \o "\nParameters: " \o JSONStringify(params)
      [] line = 165 -> "Base address: " \o PointerText(getBaseAddress(answers.base))
      [] line = 166 -> "Architecture: " \o answers.arch
      [] line = 167 -> "Package name: " \o answers.pkg
      [] line = 168 -> "Package version: " \o ToString(answers.ver)

FirstInitLine == 164
LastInitLine == 168

\* init with its architecture statement left out.
NextInitLineSkipping(line) == IF line = 165 THEN 167 ELSE line + 1

\* The statement init executes after the one at `line`.
NextInitLine(line) == line + 1

NoAnswers == [base |-> NullPtr, arch |-> "", pkg |-> "", ver |-> 0]

----------------------------------------------------------------------------
(* Calls *)

\* The host invokes the exported init(stage, parameters).
CallInit(st, params) ==
    /\ pc = "idle"
    /\ callsDone < MaxCalls
    /\ "init" \in rpcExports
    /\ frame' = "init"
    /\ initLine' = FirstInitLine
    /\ stage' = st
    /\ parameters' = params
    /\ message' = ""
    /\ level' = Omitted
    /\ helper' = "none"
    /\ emitted' = <<>>
    /\ nLogCalls' = 0
    /\ nLogReturns' = 0
    /\ hostCalls' = <<>>
    /\ seen' = NoAnswers
    /\ result' = "pending"
    /\ pc' = "eval"
    /\ UNCHANGED <<callsDone, rpcExports, globals>>
    /\ UNCHANGED <<strVars, clVars, dlVars>>

\* A mod script calls log(message, level).
CallLog(msg, lvl) ==
    /\ pc = "idle"
    /\ callsDone < MaxCalls
    /\ "log" \in DOMAIN globals
    /\ frame' = "log"
    /\ initLine' = 0
    /\ stage' = ""
    /\ parameters' = <<>>
    /\ message' = msg
    /\ level' = lvl
    /\ helper' = "none"
    /\ emitted' = <<>>
    /\ nLogCalls' = 1
    /\ nLogReturns' = 0
    /\ hostCalls' = <<>>
    /\ seen' = NoAnswers
    /\ result' = "pending"
    /\ pc' = "log"
    /\ UNCHANGED <<callsDone, rpcExports, globals>>
    /\ UNCHANGED <<strVars, clVars, dlVars>>

\* init evaluates the template literal of its current statement and calls
\* log with it (no level).  A host query that throws ends init.
EnterLog(msg) ==
    /\ message' = msg
    /\ level' = Omitted
    /\ helper' = "none"
    /\ nLogCalls' = nLogCalls + 1
    /\ pc' = "log"

InitLine164 ==
    /\ pc = "eval" /\ initLine = 164
    /\ EnterLog(InitMessage(164, stage, parameters, seen))
    /\ UNCHANGED <<frame, initLine, stage, parameters, emitted, nLogReturns,
                   hostCalls, seen, result, callsDone, rpcExports, globals>>
    /\ UNCHANGED <<strVars, clVars, dlVars>>

InitLine165 ==
    /\ pc = "eval" /\ initLine = 165
    /\ \E lookup \in ModuleLookups :
         /\ seen' = [seen EXCEPT !.base = lookup]
         /\ hostCalls' = Append(hostCalls, "getBaseAddress:Module.findBaseAddress")
         /\ EnterLog(InitMessage(165, stage, parameters, seen'))
    /\ UNCHANGED <<frame, initLine, stage, parameters, emitted, nLogReturns,
                   result, callsDone, rpcExports, globals>>
    /\ UNCHANGED <<strVars, clVars, dlVars>>

InitLine166 ==
    /\ pc = "eval" /\ initLine = 166
    /\ \E a \in Architectures(pointerSize) :
         /\ seen' = [seen EXCEPT !.arch = a]
         /\ hostCalls' = Append(hostCalls, "getArcitecture:Process.arch")
         /\ EnterLog(InitMessage(166, stage, parameters, seen'))
    /\ UNCHANGED <<frame, initLine, stage, parameters, emitted, nLogReturns,
                   result, callsDone, rpcExports, globals>>
    /\ UNCHANGED <<strVars, clVars, dlVars>>

\* A failing query that is tried again instead of ending init.
ThrowRetried ==
    /\ pc' = "eval"
    /\ result' = result
    /\ UNCHANGED <<message, level, helper, nLogCalls, seen>>

\* A query chain of init: it throws at its failAt-th host call, or answers.
Throw ==
    /\ pc' = "failed"
    /\ result' = "thrown"
    /\ UNCHANGED <<message, level, helper, nLogCalls, seen>>

InitLine167 ==
    /\ pc = "eval" /\ initLine = 167
    /\ \E failAt \in 0 .. Len(getPackageName) :
         /\ hostCalls' = hostCalls \o Attempted(getPackageName, failAt)
         /\ IF failAt = 0
            THEN \E name \in PackageNames :
                   /\ seen' = [seen EXCEPT !.pkg = name]
                   /\ EnterLog(InitMessage(167, stage, parameters, seen'))
                   /\ UNCHANGED result
            ELSE Throw
    /\ UNCHANGED <<frame, initLine, stage, parameters, emitted, nLogReturns,
                   callsDone, rpcExports, globals>>
    /\ UNCHANGED <<strVars, clVars, dlVars>>

InitLine168 ==
    /\ pc = "eval" /\ initLine = 168
    /\ \E failAt \in 0 .. Len(getPackageVersion) :
         /\ hostCalls' = hostCalls \o Attempted(getPackageVersion, failAt)
         /\ IF failAt = 0
            THEN \E code \in VersionCodes :
                   /\ seen' = [seen EXCEPT !.ver = code]
                   /\ EnterLog(InitMessage(168, stage, parameters, seen'))
                   /\ UNCHANGED result
            ELSE Throw
    /\ UNCHANGED <<frame, initLine, stage, parameters, emitted, nLogReturns,
                   callsDone, rpcExports, globals>>
    /\ UNCHANGED <<strVars, clVars, dlVars>>


----------------------------------------------------------------------------
(* log and the helpers *)

\* log(message, level): the switch selects a helper and calls it.
log ==
    /\ pc = "log"
    /\ helper' = LogDispatch(level)
    /\ pc' = "helper"
    /\ UNCHANGED <<frame, initLine, stage, parameters, message, level, emitted,
                   nLogCalls, nLogReturns, hostCalls, seen, result, callsDone,
                   rpcExports, globals>>
    /\ UNCHANGED <<strVars, clVars, dlVars>>

\* The helper hands its callback to Java.perform, which enters the
\* privileged context and starts the callback.  Java.perform is the host's;
\* the helpers use it as a scoped call (enter, run the callback, return),
\* and that is how it is taken here: a host that puts the callback off until
\* the application's class loader exists is not modelled.
JavaPerform ==
    /\ pc = "helper"
    /\ helper \in DOMAIN Helpers
    /\ pc' = "callback"
    /\ UNCHANGED <<frame, initLine, stage, parameters, message, level, helper,
                   emitted, nLogCalls, nLogReturns, hostCalls, seen, result,
                   callsDone, rpcExports, globals>>
    /\ UNCHANGED <<strVars, clVars, dlVars>>

\* What the running callback has emitted so far.
EmittedByCall(n) == SelectSeq(emitted, LAMBDA e : e.call = n)

\* The callback's next statement: Log.<priority>("tbcml", message), then
\* console.<method>(message).
CallbackStep ==
    /\ pc = "callback"
    /\ LET k == Len(EmittedByCall(nLogCalls)) + 1 IN
         /\ k <= Len(PerformBody(helper, message))
         /\ emitted' = Append(emitted, Mark(PerformBody(helper, message)[k]))
    /\ UNCHANGED <<pc, frame, initLine, stage, parameters, message, level, helper,
                   nLogCalls, nLogReturns, hostCalls, seen, result, callsDone,
                   rpcExports, globals>>
    /\ UNCHANGED <<strVars, clVars, dlVars>>

\* The callback is over: Java.perform, the helper and log return.  A log
\* call of init continues with init's next statement; init's last statement
\* ends init, which returns nothing.
HelperReturn ==
    /\ pc = "callback"
    /\ Len(EmittedByCall(nLogCalls)) = Len(PerformBody(helper, message))
    /\ nLogReturns' = nLogReturns + 1
    /\ IF frame = "init" /\ initLine # LastInitLine
       THEN /\ initLine' = NextInitLine(initLine)
            /\ pc' = "eval"
            /\ UNCHANGED result
       ELSE /\ pc' = "done"
            /\ result' = Undefined
            /\ UNCHANGED initLine
    /\ UNCHANGED <<frame, stage, parameters, message, level, helper, emitted,
                   nLogCalls, hostCalls, seen, callsDone, rpcExports, globals>>
    /\ UNCHANGED <<strVars, clVars, dlVars>>

\* A helper that keeps its last answer in a script-level variable.
GlobalsAfterCallCaching(g) ==
    [f \in DOMAIN g \cup {"cached_base_address"} |-> IF f \in DOMAIN g THEN g[f] ELSE "value"]

\* The script-level bindings and the export object after a call: no
\* function of the script assigns to either.
GlobalsAfterCall(g) == g
ExportsAfterCall(e) == e

\* The call is over (returned or thrown); the host may call again.
Finish ==
    /\ pc \in {"done", "failed"}
    /\ pc' = "idle"
    /\ callsDone' = callsDone + 1
    /\ globals' = GlobalsAfterCall(globals)
    /\ rpcExports' = ExportsAfterCall(rpcExports)
    /\ UNCHANGED <<frame, initLine, stage, parameters, message, level, helper,
                   emitted, nLogCalls, nLogReturns, hostCalls, seen, result>>
    /\ UNCHANGED <<strVars, clVars, dlVars>>

----------------------------------------------------------------------------
(* Process memory and the native string helpers *)

\* Mapped addresses are 1 .. MemSize; 0 is the null address.
MemSize == 2 * BufCap + 3 * 8 + 10
Mapped(a) == a \in 1 .. MemSize

\* Code points the contents are made of: one of one byte, one of two bytes.
CodePoints == {97, 233}

RECURSIVE SeqsUpTo(_, _)
SeqsUpTo(S, n) ==
    IF n = 0 THEN {<<>>}
    ELSE LET shorter == SeqsUpTo(S, n - 1) IN
         shorter \cup {Append(q, x) : q \in shorter, x \in S}

Contents == SeqsUpTo(CodePoints, MaxLen)

\* writeUtf8String's encoding of a string, without the terminator.
RECURSIVE Utf8Encode(_)
Utf8Encode(cps) ==
    IF cps = <<>> THEN <<>>
    ELSE LET c == Head(cps) IN
         (IF c < 128 THEN <<c>> ELSE <<192 + (c \div 64), 128 + (c % 64)>>)
         \o Utf8Encode(Tail(cps))

\* readUtf8String's decoding; ok is FALSE for bytes that are no UTF-8 text.
RECURSIVE Utf8Decode(_)
Utf8Decode(bytes) ==
    IF bytes = <<>> THEN [ok |-> TRUE, cps |-> <<>>]
    ELSE LET b == Head(bytes) IN
         IF b < 128
         THEN LET rest == Utf8Decode(Tail(bytes)) IN
              [ok |-> rest.ok, cps |-> <<b>> \o rest.cps]
         ELSE IF b >= 192 /\ b < 224 /\ Len(bytes) >= 2
                 /\ bytes[2] >= 128 /\ bytes[2] < 192
         THEN LET rest == Utf8Decode(Tail(Tail(bytes))) IN
              [ok |-> rest.ok, cps |-> <<(b - 192) * 64 + (bytes[2] - 128)>> \o rest.cps]
         ELSE [ok |-> FALSE, cps |-> <<>>]

\* address.readU8()
ReadU8(m, a) == m[a]

\* address.readPointer(): the little-endian value of pointerSize bytes.  A
\* value with a non-zero byte above the lowest lies outside the mapped
\* memory; it reads as MemSize + 1, an unmapped address.
ReadPointer(m, a, ps) ==
    IF \A i \in 1 .. ps - 1 : m[a + i] = 0 THEN m[a] ELSE MemSize + 1

\* The bytes from a up to the first NUL; ok is FALSE when a is unmapped or
\* the text runs off the mapped memory.
RECURSIVE CStringBytes(_, _)
CStringBytes(m, a) ==
    IF ~Mapped(a) THEN [ok |-> FALSE, bytes |-> <<>>]
    ELSE IF m[a] = 0 THEN [ok |-> TRUE, bytes |-> <<>>]
    ELSE LET rest == CStringBytes(m, a + 1) IN
         [ok |-> rest.ok, bytes |-> <<m[a]>> \o rest.bytes]

\* pointer.readUtf8String(): the NUL-terminated text at a.
ReadUtf8String(m, a) ==
    LET raw == CStringBytes(m, a) IN
    IF raw.ok THEN Utf8Decode(raw.bytes) ELSE [ok |-> FALSE, cps |-> <<>>]

\* pointer.writeUtf8String(content): the encoded content and a NUL, from a.
WriteUtf8String(m, a, cps) ==
    LET bytes == Utf8Encode(cps) \o <<0>> IN
    [x \in DOMAIN m |->
        IF x >= a /\ x < a + Len(bytes) THEN bytes[x - a + 1] ELSE m[x]]
WriteFits(a, cps) ==
    Mapped(a) /\ Mapped(a + Len(Utf8Encode(cps)))

\* The form test with the whole first byte compared instead of its lowest bit.
IsTinyWholeByte(m, a) == ReadU8(m, a) = 0

\* const isTiny = (address.readU8() & 1) === 0
IsTiny(m, a) == (ReadU8(m, a) % 2) = 0

\* The address of the text of the string object at a.
TextAddress(m, a, ps) ==
    IF IsTiny(m, a) THEN a + 1 ELSE ReadPointer(m, a + 2 * ps, ps)

\* readStdString(address): where it reads and what it returns.
readStdString(m, a, ps) ==
    LET at == TextAddress(m, a, ps)
        got == ReadUtf8String(m, at)
    IN  [at |-> at, ok |-> got.ok, cps |-> got.cps]

\* writeStdString(address, content): where it writes and the memory after.
writeStdString(m, a, ps, cps) ==
    LET at == TextAddress(m, a, ps) IN
    IF WriteFits(at, cps)
    THEN [at |-> at, ok |-> TRUE, mem |-> WriteUtf8String(m, at, cps)]
    ELSE [at |-> at, ok |-> FALSE, mem |-> m]

\* is_64_bit()
is_64_bit(ps) == ps = 8


\* The string object is at ObjectAddress; a heap buffer of BufCap bytes lies
\* right before it (from 1) or right after it.
ObjectAddress == BufCap + 1
BufferBefore == ObjectAddress - BufCap
BufferAfter(ps) == ObjectAddress + 3 * ps

FirstBytes == {0, 6, 254, 1, 33, 255}

\* Memory holding a string object in tiny form: the first byte, the inline
\* text up to the end of the object, its terminator.
TinyObject(first, ps) ==
    [x \in 1 .. MemSize |->
        IF x = ObjectAddress THEN first
        ELSE IF x = ObjectAddress + 3 * ps - 1 \/ x = MemSize THEN 0
        ELSE 120]

\* Memory holding a string object in heap form: the capacity word with the
\* first byte, the size word, the pointer to a buffer holding a terminated
\* text that fills it.
HeapObject(first, ps, buffer) ==
    [x \in 1 .. MemSize |->
        IF x = ObjectAddress THEN first
        ELSE IF x = ObjectAddress + ps THEN BufCap - 1
        ELSE IF x = ObjectAddress + 2 * ps THEN buffer
        ELSE IF x > ObjectAddress /\ x < ObjectAddress + 3 * ps THEN 0
        ELSE IF x = buffer + BufCap - 1 \/ x = MemSize THEN 0
        ELSE 120]

StringObjects(ps) ==
    {TinyObject(b, ps) : b \in {f \in FirstBytes : f % 2 = 0}}
    \cup {HeapObject(b, ps, buf) : b \in {f \in FirstBytes : f % 2 = 1},
                                   buf \in {BufferBefore, BufferAfter(ps)}}

\* A mod script calls readStdString(address).
CallReadStdString ==
    /\ pc = "idle"
    /\ callsDone < MaxCalls
    /\ LET r == readStdString(mem, address, pointerSize) IN
         /\ textAt' = r.at
         /\ text' = r.cps
         /\ pc' = IF r.ok THEN "done" ELSE "failed"
         /\ result' = IF r.ok THEN "value" ELSE "thrown"
    /\ frame' = "readStdString"
    /\ memAtCall' = mem
    /\ content' = <<>>
    /\ UNCHANGED <<mem, pointerSize, address>>
    /\ UNCHANGED <<initLine, stage, parameters, message, level, helper, emitted,
                   nLogCalls, nLogReturns, hostCalls, seen, callsDone,
                   rpcExports, globals>>
    /\ UNCHANGED <<clVars, dlVars>>

\* A mod script calls writeStdString(address, content).
CallWriteStdString(cps) ==
    /\ pc = "idle"
    /\ callsDone < MaxCalls
    /\ LET w == writeStdString(mem, address, pointerSize, cps) IN
         /\ textAt' = w.at
         /\ mem' = w.mem
         /\ pc' = IF w.ok THEN "done" ELSE "failed"
         /\ result' = IF w.ok THEN Undefined ELSE "thrown"
    /\ frame' = "writeStdString"
    /\ memAtCall' = mem
    /\ content' = cps
    /\ text' = <<>>
    /\ UNCHANGED <<pointerSize, address>>
    /\ UNCHANGED <<initLine, stage, parameters, message, level, helper, emitted,
                   nLogCalls, nLogReturns, hostCalls, seen, callsDone,
                   rpcExports, globals>>
    /\ UNCHANGED <<clVars, dlVars>>

----------------------------------------------------------------------------
(* getJavaClass *)

\* A class loader, as the host answers for it: whether its findClass finds
\* the class, and whether Java.ClassFactory.get answers a factory for it.
ClassLoaders == [finds : BOOLEAN, factory : BOOLEAN]
LoaderLists == SeqsUpTo(ClassLoaders, MaxLoaders)

\* The try block of the loop (findClass, then Java.ClassFactory.get)
\* completes without throwing.
TryCompletes(loader) == loader.finds /\ loader.factory

\* A mod script calls getJavaClass(className); the host enumerates its loaders.
CallGetJavaClass(ls) ==
    /\ pc = "idle"
    /\ callsDone < MaxCalls
    /\ frame' = "getJavaClass"
    /\ loaders' = ls
    /\ queried' = <<>>
    /\ classFactory' = 0
    /\ result' = "pending"
    /\ pc' = "loop"
    /\ UNCHANGED <<initLine, stage, parameters, message, level, helper, emitted,
                   nLogCalls, nLogReturns, hostCalls, seen, callsDone,
                   rpcExports, globals>>
    /\ UNCHANGED <<strVars, dlVars>>

\* The loop without its break: the last loader that passes gives the factory.
LoopIterationNoBreak ==
    /\ pc = "loop"
    /\ Len(queried) < Len(loaders)
    /\ LET i == Len(queried) + 1 IN
         /\ queried' = Append(queried, i)
         /\ classFactory' = IF TryCompletes(loaders[i]) THEN i ELSE classFactory
         /\ pc' = "loop"
    /\ UNCHANGED <<frame, initLine, stage, parameters, message, level, helper,
                   emitted, nLogCalls, nLogReturns, hostCalls, seen, result,
                   callsDone, rpcExports, globals, loaders>>
    /\ UNCHANGED <<strVars, dlVars>>

\* One iteration of the for-in loop over the loaders, in index order: the
\* try block either completes, which sets classFactory and breaks, or
\* throws, which the catch turns into continue.
LoopIteration ==
    /\ pc = "loop"
    /\ Len(queried) < Len(loaders)
    /\ LET i == Len(queried) + 1 IN
         /\ queried' = Append(queried, i)
         /\ IF TryCompletes(loaders[i])
            THEN classFactory' = i /\ pc' = "use"
            ELSE classFactory' = classFactory /\ pc' = "loop"
    /\ UNCHANGED <<frame, initLine, stage, parameters, message, level, helper,
                   emitted, nLogCalls, nLogReturns, hostCalls, seen, result,
                   callsDone, rpcExports, globals, loaders>>
    /\ UNCHANGED <<strVars, dlVars>>

\* The loop ends with no loader left.
LoopExit ==
    /\ pc = "loop"
    /\ Len(queried) = Len(loaders)
    /\ pc' = "use"
    /\ UNCHANGED <<frame, initLine, stage, parameters, message, level, helper,
                   emitted, nLogCalls, nLogReturns, hostCalls, seen, result,
                   callsDone, rpcExports, globals>>
    /\ UNCHANGED <<strVars, clVars, dlVars>>

\* return classFactory.use(className): a TypeError when classFactory is
\* undefined; else the factory's answer, or what it throws.
UseClassFactory ==
    /\ pc = "use"
    /\ IF classFactory = 0
       THEN pc' = "failed" /\ result' = "thrown"
       ELSE \E ok \in BOOLEAN :
              /\ pc' = IF ok THEN "done" ELSE "failed"
              /\ result' = IF ok THEN "value" ELSE "thrown"
    /\ UNCHANGED <<frame, initLine, stage, parameters, message, level, helper,
                   emitted, nLogCalls, nLogReturns, hostCalls, seen,
                   callsDone, rpcExports, globals>>
    /\ UNCHANGED <<strVars, clVars, dlVars>>

----------------------------------------------------------------------------
(* download_file *)

Lines == {"ab", "", "c"}
Responses == SeqsUpTo(Lines, MaxLines)

\* The host calls download_file makes before its loop, in order.
download_file ==
    << "download_file:Java.use", "download_file:URL.$new",
       "download_file:openConnection", "download_file:getInputStream",
       "download_file:InputStreamReader.$new",
       "download_file:BufferedReader.$new", "download_file:StringBuilder.$new" >>

\* A mod script calls download_file(url): the classes are looked up, the
\* connection is opened and the reader and the builder are made, unless
\* one of these host calls throws.
CallDownloadFile(lines) ==
    /\ pc = "idle"
    /\ callsDone < MaxCalls
    /\ frame' = "download_file"
    /\ \E failAt \in 0 .. Len(download_file) :
         /\ hostCalls' = Attempted(download_file, failAt)
         /\ pc' = IF failAt = 0 THEN "reading" ELSE "failed"
         /\ result' = IF failAt = 0 THEN "pending" ELSE "thrown"
         /\ body' = IF failAt = 0 THEN lines ELSE <<>>
    /\ response' = body'
    /\ builder' = ""
    /\ returned' = ""
    /\ UNCHANGED <<initLine, stage, parameters, message, level, helper, emitted,
                   nLogCalls, nLogReturns, seen, callsDone, rpcExports, globals>>
    /\ UNCHANGED <<strVars, clVars>>

\* The loop condition read as a truth value: an empty line ends the loop too.
LoopEndsOnFalsy(line) == line = <<>> \/ line = <<"">>

\* (inputLine = bufferedReader.readLine()) != null: the reader's answer,
\* <<>> for null and <<line>> for a line, ends the loop when it is null.
LoopEnds(line) == line = <<>>

\* One evaluation of the loop condition and, for a line, the loop body.
ReadLine ==
    /\ pc = "reading"
    /\ hostCalls' = Append(hostCalls, "download_file:readLine")
    /\ \E throws \in BOOLEAN :
         IF throws
         THEN /\ pc' = "failed"
              /\ result' = "thrown"
              /\ UNCHANGED <<response, builder>>
         ELSE LET line == IF response = <<>> THEN <<>> ELSE <<Head(response)>> IN
              IF LoopEnds(line)
              THEN /\ pc' = "closing"
                   /\ UNCHANGED <<response, builder, result>>
              ELSE /\ builder' = builder \o line[1]
                   /\ response' = Tail(response)
                   /\ pc' = "reading"
                   /\ UNCHANGED result
    /\ UNCHANGED <<frame, initLine, stage, parameters, message, level, helper,
                   emitted, nLogCalls, nLogReturns, seen, callsDone,
                   rpcExports, globals, body, returned>>
    /\ UNCHANGED <<strVars, clVars>>

\* bufferedReader.close(); return stringBuilder.toString()
CloseAndReturn ==
    /\ pc = "closing"
    /\ \E throws \in BOOLEAN :
         IF throws
         THEN /\ hostCalls' = Append(hostCalls, "download_file:close")
              /\ pc' = "failed"
              /\ result' = "thrown"
              /\ UNCHANGED returned
         ELSE /\ hostCalls' = hostCalls \o <<"download_file:close", "download_file:toString">>
              /\ returned' = builder
              /\ pc' = "done"
              /\ result' = "value"
    /\ UNCHANGED <<frame, initLine, stage, parameters, message, level, helper,
                   emitted, nLogCalls, nLogReturns, seen, callsDone,
                   rpcExports, globals, response, body, builder>>
    /\ UNCHANGED <<strVars, clVars>>

----------------------------------------------------------------------------
(* The script after load, and the calls each specification makes *)

InitLogging ==
    /\ pc = "idle"
    /\ frame = "none"
    /\ initLine = 0
    /\ stage = ""
    /\ parameters = <<>>
    /\ message = ""
    /\ level = Omitted
    /\ helper = "none"
    /\ emitted = <<>>
    /\ nLogCalls = 0
    /\ nLogReturns = 0
    /\ hostCalls = <<>>
    /\ seen = NoAnswers
    /\ result = "pending"
    /\ callsDone = 0
    /\ rpcExports = {"init"}
    /\ globals = [f \in ScriptFunctions |-> "function"]

NoMemory == [x \in 1 .. MemSize |-> 0]

InitNoStrings ==
    /\ mem = NoMemory
    /\ memAtCall = NoMemory
    /\ address = ObjectAddress
    /\ content = <<>>
    /\ textAt = 0
    /\ text = <<>>

InitNoLoaders ==
    /\ loaders = <<>>
    /\ queried = <<>>
    /\ classFactory = 0

InitNoDownload ==
    /\ response = <<>>
    /\ body = <<>>
    /\ builder = ""
    /\ returned = ""

InitStdString ==
    /\ InitLogging
    /\ pointerSize \in {4, 8}
    /\ mem \in StringObjects(pointerSize)
    /\ memAtCall = mem
    /\ address = ObjectAddress
    /\ content = <<>>
    /\ textAt = 0
    /\ text = <<>>
    /\ InitNoLoaders
    /\ InitNoDownload

NextStdString ==
    \/ CallReadStdString
    \/ \E cps \in Contents : CallWriteStdString(cps)
    \/ Finish

SpecStdString == InitStdString /\ [][NextStdString]_vars


Init ==
    /\ InitLogging
    /\ pointerSize \in {4, 8}
    /\ InitNoStrings
    /\ InitNoLoaders
    /\ InitNoDownload

Next ==
    \/ \E st \in Stages, params \in ParameterMappings : CallInit(st, params)
    \/ \E msg \in Messages, lvl \in Levels : CallLog(msg, lvl)
    \/ InitLine164
    \/ InitLine165
    \/ InitLine166
    \/ InitLine167
    \/ InitLine168
    \/ log
    \/ JavaPerform
    \/ CallbackStep
    \/ HelperReturn
    \/ Finish

Spec == Init /\ [][Next]_vars



InitJavaClass ==
    /\ InitLogging
    /\ pointerSize \in {4, 8}
    /\ InitNoStrings
    /\ InitNoLoaders
    /\ InitNoDownload

NextJavaClass ==
    \/ \E ls \in LoaderLists : CallGetJavaClass(ls)
    \/ LoopIteration
    \/ LoopExit
    \/ UseClassFactory
    \/ Finish

SpecJavaClass == InitJavaClass /\ [][NextJavaClass]_vars

InitDownload ==
    /\ InitLogging
    /\ pointerSize \in {4, 8}
    /\ InitNoStrings
    /\ InitNoLoaders
    /\ InitNoDownload

NextDownload ==
    \/ \E lines \in Responses : CallDownloadFile(lines)
    \/ ReadLine
    \/ CloseAndReturn
    \/ Finish

\* The script's thread keeps running while a call is active.
SpecDownload == InitDownload /\ [][NextDownload]_vars /\ WF_vars(NextDownload)

----------------------------------------------------------------------------
(* Reading what a call emitted *)

Range(seq) == {seq[i] : i \in DOMAIN seq}
NoDuplicates(seq) == \A i, j \in DOMAIN seq : seq[i] = seq[j] => i = j

LogcatRecords == SelectSeq(emitted, LAMBDA e : e.rec.sink = "logcat")
ConsoleMessages == SelectSeq(emitted, LAMBDA e : e.rec.sink = "console")
TextsOf(seq) == [i \in DOMAIN seq |-> seq[i].rec.text]
AllInfo ==
    /\ \A i \in DOMAIN LogcatRecords :
         LogcatRecords[i].rec.how = "i" /\ LogcatRecords[i].rec.tag = "tbcml"
    /\ \A i \in DOMAIN ConsoleMessages : ConsoleMessages[i].rec.how = "info"

\* The JSON text of each parameter mapping the host passes, written out.
ExpectedJSON(params) ==
    CASE params = <<>> -> "{}"
      [] params = << <<"apk", Str("jp")>> >> -> "{\"apk\":\"jp\"}"
      [] params = << <<"skip", Undef>>, <<"n", Num(7)>> >> -> "{\"n\":7}"

\* The text of each base address init can report, written out.
ExpectedBaseText(lookup) ==
    CASE lookup.isNull -> "null"
      [] lookup = Ptr(8192) -> "0x3000"
      [] lookup = Ptr(487424) -> "0x78000"

\* The five messages of a complete init, written out from its arguments and
\* the host's answers.
ExpectedInitTexts ==
    << "Script loaded successfully\nStage: " \o stage \o "\nParameters: "
           \o ExpectedJSON(parameters),
       "Base address: " \o ExpectedBaseText(seen.base),
       "Architecture: " \o seen.arch,
       "Package name: " \o seen.pkg,
       "Package version: " \o ToString(seen.ver) >>

\* The host queries of a complete init: reads only.
InitQueries ==
    << "getBaseAddress:Module.findBaseAddress", "getArcitecture:Process.arch" >>
    \o getPackageName \o getPackageVersion

----------------------------------------------------------------------------
(* C1: a call of init that runs to completion has emitted exactly five log
   messages, all at info level, in the order script-loaded (with the stage
   and the JSON text of the parameters), base address, architecture,
   package name, package version; it returns nothing and has made only
   read queries to the host. *)
C1_InitEmitsFiveInfoMessages ==
    (frame = "init" /\ pc = "done") =>
        /\ TextsOf(LogcatRecords) = ExpectedInitTexts
        /\ TextsOf(ConsoleMessages) = ExpectedInitTexts
        /\ Len(emitted) = 10
        /\ AllInfo
        /\ nLogCalls = 5
        /\ result = Undefined
        /\ hostCalls = InitQueries

C1_Witness ==
    /\ frame = "init" /\ pc = "done"
    /\ parameters = << <<"skip", Undef>>, <<"n", Num(7)>> >>
    /\ ~seen.base.isNull

(* C2: getBaseAddress answers null for a missing module without throwing,
   and the looked-up base plus 4096 otherwise: the base-address statement of
   init always reaches log, with the text "null" for a missing module, and
   an init that completes with the module absent has emitted all five
   messages, the second reporting a null base address. *)
C2_MissingModuleDegradesSilently ==
    /\ (frame = "init" /\ initLine = 165 /\ pc # "eval") =>
          /\ pc \in {"log", "helper", "callback"}
          /\ message = "Base address: " \o ExpectedBaseText(seen.base)
    /\ (frame = "init" /\ result = "thrown") => initLine \in {167, 168}
    /\ (frame = "init" /\ pc = "done" /\ seen.base.isNull) =>
          /\ Len(LogcatRecords) = 5
          /\ LogcatRecords[2].rec.text = "Base address: null"

C2_Witness ==
    frame = "init" /\ pc = "done" /\ seen.base.isNull /\ Len(LogcatRecords) = 5

(* C3: a package query that throws ends init at once: when the package-name
   query fails exactly the first three messages have been emitted, when
   only the package-version query fails exactly the first four, nothing is
   emitted afterwards, and no host query has been attempted twice. *)
PackageNameFailed ==
    frame = "init" /\ "getPackageName:Java.use" \in Range(hostCalls) /\ seen.pkg = ""
PackageVersionFailed ==
    frame = "init" /\ "getPackageVersion:Java.use" \in Range(hostCalls) /\ seen.ver = 0

C3_FailingQueryEndsInit ==
    /\ PackageNameFailed =>
          /\ pc \in {"failed", "idle"}
          /\ result = "thrown"
          /\ TextsOf(LogcatRecords) = SubSeq(ExpectedInitTexts, 1, 3)
          /\ TextsOf(ConsoleMessages) = SubSeq(ExpectedInitTexts, 1, 3)
          /\ NoDuplicates(hostCalls)
    /\ PackageVersionFailed =>
          /\ pc \in {"failed", "idle"}
          /\ result = "thrown"
          /\ TextsOf(LogcatRecords) = SubSeq(ExpectedInitTexts, 1, 4)
          /\ TextsOf(ConsoleMessages) = SubSeq(ExpectedInitTexts, 1, 4)
          /\ NoDuplicates(hostCalls)

C3_Witness ==
    /\ PackageVersionFailed /\ pc = "idle"
    /\ Len(hostCalls) = 2 + Len(getPackageName) + 3

(* C4: the callback of a logging helper (one platform record, then one
   console message) has run to completion when the helper returns: the
   records of successive log calls appear in call order, each call's pair
   together, and every record is emitted while its own call is the running
   one. *)
C4_CallbackIsScopedCall ==
    /\ \A i \in DOMAIN emitted :
          /\ emitted[i].call = emitted[i].returned + 1
          /\ emitted[i].call = (i + 1) \div 2
          /\ emitted[i].rec.sink = (IF i % 2 = 1 THEN "logcat" ELSE "console")
    /\ \A n \in 1 .. nLogReturns :
          /\ Len(EmittedByCall(n)) = 2
          /\ EmittedByCall(n)[1].rec.text = EmittedByCall(n)[2].rec.text
    /\ Len(emitted) <= 2 * nLogCalls

C4_Witness ==
    nLogReturns >= 2 /\ pc = "callback" /\ Len(EmittedByCall(nLogCalls)) = 1

(* C5: no call changes the script-level bindings or the export object: after
   any sequence of calls they are what the load left. *)
C5_NoStateKeptBetweenCalls ==
    /\ rpcExports = {"init"}
    /\ DOMAIN globals = ScriptFunctions
    /\ \A f \in DOMAIN globals : globals[f] = "function"

C5_Witness ==
    callsDone >= 2 /\ frame = "init" /\ result = "thrown"

(* C6: log dispatches on its level: each of the five level names selects the
   helper of that priority, an omitted or any other level selects the info
   helper, and a call has produced exactly one platform record with tag
   "tbcml" and exactly one console message, both with the message as
   passed. *)
ExpectedPriority(lvl) ==
    CASE lvl = "error" -> "e"
      [] lvl = "warning" -> "w"
      [] lvl = "verbose" -> "v"
      [] lvl = "debug" -> "d"
      [] OTHER -> "i"

C6_LogDispatchIsTotal ==
    (frame = "log" /\ pc \in {"done", "idle"}) =>
        /\ Len(emitted) = 2
        /\ Len(LogcatRecords) = 1
        /\ Len(ConsoleMessages) = 1
        /\ LogcatRecords[1].rec.how = ExpectedPriority(level)
        /\ LogcatRecords[1].rec.tag = "tbcml"
        /\ LogcatRecords[1].rec.text = message
        /\ ConsoleMessages[1].rec.text = message
        /\ result = Undefined

C6_Witness ==
    frame = "log" /\ pc = "done" /\ level = "trace" /\ message = "hello"



----------------------------------------------------------------------------
(* Reading what the string helpers did *)

\* The encoded text cps, with its terminator, is what memory m holds at a.
TextIsAt(m, a, cps) ==
    LET bytes == Utf8Encode(cps) IN
    /\ Mapped(a) /\ Mapped(a + Len(bytes))
    /\ \A i \in 1 .. Len(bytes) : m[a + i - 1] = bytes[i] /\ bytes[i] # 0
    /\ m[a + Len(bytes)] = 0

\* The bytes of the pointer slot of the string object.
PointerSlot == {address + 2 * pointerSize + i : i \in 0 .. pointerSize - 1}

(* C7: readStdString and writeStdString choose the storage by the lowest
   bit of the first byte at the address alone: for 0 the text they read or
   write starts at address + 1, for 1 it is at the pointer stored at
   address + 16 (pointer size 8) or address + 8 (pointer size 4); what is
   read is the NUL-terminated text there, what is written is the content
   and a NUL there and nothing else. *)
C7_FormChosenByLowestBit ==
    (frame \in {"readStdString", "writeStdString"}) =>
        LET bit == memAtCall[address] % 2
            slot == address + (IF pointerSize = 8 THEN 16 ELSE 8)
        IN  /\ pointerSize \in {4, 8}
            /\ bit = 0 => textAt = address + 1
            /\ bit = 1 =>
                 IF Mapped(textAt)
                 THEN /\ memAtCall[slot] = textAt
                      /\ \A x \in PointerSlot \ {slot} : memAtCall[x] = 0
                 ELSE result = "thrown"
            /\ (frame = "readStdString" /\ result = "value") =>
                 /\ TextIsAt(memAtCall, textAt, text)
                 /\ mem = memAtCall
            /\ (frame = "writeStdString" /\ result = Undefined) =>
                 /\ TextIsAt(mem, textAt, content)
                 /\ \A x \in DOMAIN mem :
                      (x < textAt \/ x > textAt + Len(Utf8Encode(content)))
                          => mem[x] = memAtCall[x]

C7_Witness ==
    /\ frame = "readStdString" /\ pc = "done"
    /\ memAtCall[address] = 255 /\ pointerSize = 8
    /\ textAt = BufferAfter(8)
    /\ text = <<233, 97>>

(* C8: writeStdString(address, content) on a string object leaves the first
   byte at the address unchanged and, in heap form, the stored pointer
   unchanged, and a readStdString(address) right after it returns exactly
   content. *)
C8_WriteThenReadRoundTrip ==
    (frame = "writeStdString" /\ pc = "done" /\ callsDone = 0) =>
        /\ mem[address] = memAtCall[address]
        /\ (memAtCall[address] % 2 = 1) =>
              \A x \in PointerSlot : mem[x] = memAtCall[x]
        /\ LET r == readStdString(mem, address, pointerSize) IN
             r.ok /\ r.at = textAt /\ r.cps = content

----------------------------------------------------------------------------
(* Reading what getJavaClass did *)

Finding == {i \in DOMAIN loaders : loaders[i].finds}
Passing == {i \in DOMAIN loaders : loaders[i].finds /\ loaders[i].factory}
Least(S) == CHOOSE i \in S : \A j \in S : i <= j
UpTo(n) == [i \in 1 .. n |-> i]

(* C9 as stated: getJavaClass resolves the class through the first loader,
   in enumeration order, whose findClass succeeds; failing loaders are
   skipped, no loader after that one is queried, and with no such loader
   the call ends in an uncaught failure. *)
C9_FirstFindingLoaderResolves ==
    (frame = "getJavaClass" /\ pc \in {"use", "done", "failed"}) =>
        IF Finding = {}
        THEN classFactory = 0 /\ queried = UpTo(Len(loaders)) /\ pc # "done"
        ELSE classFactory = Least(Finding) /\ queried = UpTo(Least(Finding))

(* C9 amended: getJavaClass resolves the class through the first loader, in
   enumeration order, for which findClass and Java.ClassFactory.get both
   succeed; a loader for which either throws is skipped, no loader after
   that one is queried, and with no such loader the call ends in an
   uncaught failure. *)
C9_FirstPassingLoaderResolves ==
    (frame = "getJavaClass" /\ pc \in {"use", "done", "failed"}) =>
        IF Passing = {}
        THEN classFactory = 0 /\ queried = UpTo(Len(loaders)) /\ pc # "done"
        ELSE classFactory = Least(Passing) /\ queried = UpTo(Least(Passing))

C9_Witness ==
    /\ frame = "getJavaClass" /\ pc = "done"
    /\ Len(loaders) = 3 /\ classFactory = 2
    /\ ~loaders[1].finds /\ loaders[3].finds /\ loaders[3].factory

----------------------------------------------------------------------------
(* Reading what download_file did *)

RECURSIVE JoinLines(_)
JoinLines(lines) ==
    IF lines = <<>> THEN "" ELSE Head(lines) \o JoinLines(Tail(lines))

Count(seq, x) == Cardinality({i \in DOMAIN seq : seq[i] = x})
Repeat(x, n) == [i \in 1 .. n |-> x]

DownloadReturnsJoinedLines ==
    (frame = "download_file") =>
        /\ Count(hostCalls, "download_file:openConnection") <= 1
        /\ Count(hostCalls, "download_file:close") <= 1
        /\ Count(hostCalls, "download_file:readLine") <= Len(body) + 1
        /\ pc \in {"done", "idle"} /\ result = "value" =>
             /\ returned = JoinLines(body)
             /\ body = <<"ab", "c">> => returned = "abc"
             /\ body = <<>> => returned = ""
             /\ hostCalls = download_file
                    \o Repeat("download_file:readLine", Len(body) + 1)
                    \o <<"download_file:close", "download_file:toString">>
        /\ result = "thrown" =>
             /\ pc \in {"failed", "idle"}
             /\ returned = ""
             /\ NoDuplicates(SelectSeq(hostCalls,
                    LAMBDA c : c # "download_file:readLine"))

DownloadLoopTerminates ==
    (frame = "download_file" /\ pc = "reading") ~> (pc \in {"done", "failed"})

(* C10: download_file opens one connection, reads lines up to the first null
   and no further, closes the reader once, after the last read and before
   it returns, and returns the lines read joined in order with nothing
   between them ("" for an empty body); its loop terminates for every
   finite response, and a call that throws is not tried again. *)
C10_DownloadIsSingleFetch ==
    []DownloadReturnsJoinedLines /\ DownloadLoopTerminates

C10_Witness ==
    /\ frame = "download_file" /\ pc = "done"
    /\ body = <<"", "c">> /\ returned = "c"

=============================================================================
